---- MODULE Spec2Model ----
(***************************************************************************)
(* Model of pkg/model/pb/rule.go of polaris-go: the ServiceRuleInProto     *)
(* rule document (construction, validation, accessors) and                 *)
(* buildCacheFromMatcher, the algorithm that compiles the regular          *)
(* expressions of a metadata map into the document's rule cache.           *)
(***************************************************************************)
EXTENDS Integers, Sequences, FiniteSets, TLC

\* ------------------------------------------------------------------ bounds
\* Number of rule documents alive at once.
MaxDocs == 2
\* Largest number of entries of one metadata map.
MaxEntries == 2
\* Cap on the matchers one cache instance may have had compiled for it.
MaxCompiles == 3

DocIds == 1..MaxDocs

\* ------------------------------------------------- values of the protocol
MatchAll == "*"

\* Pattern texts: the wildcard, the empty text, a pattern that compiles and
\* one that does not.
Texts == {MatchAll, "", "^foo.*", "(unclosed"}

MatchTypes == {"EXACT", "REGEX"}
ValueTypes == {"TEXT", "VARIABLE"}

\* namingpb.MatchString: {Type, ValueType, Value}.
MatchStrings == [Type : MatchTypes, ValueType : ValueTypes, Value : Texts]

MS(t, vt, v) == [Type |-> t, ValueType |-> vt, Value |-> v]

\* A metadata map map[string]*MatchString with n entries: its keys are named
\* 1..n, so the map is a function from 1..n to MatchStrings.
MetadataMaps == UNION {[1..n -> MatchStrings] : n \in 0..MaxEntries}

\* The orders in which Go may iterate a map of n entries: every permutation.
Perms(n) == {p \in [1..n -> 1..n] : \A i, j \in 1..n : p[i] = p[j] => i = j}

\* ------------------------------------------------------------ errors
NilError == [msg |-> "nil", pattern |-> "", cause |-> ""]

\* fmt.Errorf("value of variable type can not be empty")
ErrEmptyVariable ==
    [msg |-> "value of variable type can not be empty", pattern |-> "", cause |-> ""]

\* fmt.Errorf("invalid regex expression %s, error is %v", valueRawStr, err)
ErrInvalidRegex(valueRawStr, err) ==
    [msg |-> "invalid regex expression %s, error is %v",
     pattern |-> valueRawStr, cause |-> err]

IsMalformedReference(e) == e.msg = "value of variable type can not be empty"
IsInvalidPattern(e) == e.msg = "invalid regex expression %s, error is %v"

\* ------------------------------------------------------ compiled matchers
\* A compiled *regexp.Regexp: the pattern it was compiled from and the
\* identity of the object (the n-th matcher compiled for its cache).
NilMatcher == [pattern |-> "", id |-> 0]

\* regexp.Compile(text, regexp.RE2) of dlclark/regexp2: the error it returns
\* ("nil" when the text compiles).  The empty pattern compiles; a lone
\* quantifier and an unclosed group do not.
CompileError(text) ==
    CASE text = "(unclosed" -> "missing closing )"
      [] text = "*"         -> "quantifier following nothing"
      [] OTHER              -> "nil"

Compiles(text) == CompileError(text) = "nil"

\* The matcher regexp.Compile returns for text, the (n+1)-th of its cache.
regexpCompile(text, n) ==
    IF Compiles(text) THEN [pattern |-> text, id |-> n + 1] ELSE NilMatcher

\* ------------------------------------------------------------- rule cache
\* The regexMatchers map of a model.RuleCache: pattern text -> matcher.
EmptyMap == [t \in {} |-> NilMatcher]

\* model.NewRuleCache(): a cache with no matcher.
NewRuleCache == EmptyMap

\* RuleCache.GetRegexMatcher(pattern): the matcher, or nil.
GetRegexMatcher(cache, pattern) ==
    IF pattern \in DOMAIN cache THEN cache[pattern] ELSE NilMatcher

\* RuleCache.PutRegexMatcher(pattern, matcher): inserts if absent.
PutRegexMatcher(cache, pattern, matcher) ==
    IF pattern \in DOMAIN cache
        THEN cache
        ELSE [t \in DOMAIN cache \cup {pattern} |->
                 IF t = pattern THEN matcher ELSE cache[t]]

\* ------------------------------------------------- buildCacheFromMatcher
\* The state one build call threads through its loop: the cache, the number
\* of matchers compiled for it so far, the texts handed to regexp.Compile by
\* this call (in order), and the error the call returns.
BuildState(cache, produced) ==
    [cache |-> cache, produced |-> produced, compiled |-> <<>>, err |-> NilError]

\* Mutant: the wildcard test is lost.
IsMatchAll_Never(metaValue) == FALSE

\* valueRawStr == MatchAll: the entry is skipped.
IsMatchAll(metaValue) == metaValue.Value = MatchAll

\* Mutant: the empty-variable test looks at regular expressions only.
IsEmptyVariable_RegexOnly(metaValue) ==
    metaValue.Type = "REGEX" /\ metaValue.ValueType = "VARIABLE" /\ metaValue.Value = ""

\* A variable-typed entry with an empty value: the build fails.
IsEmptyVariable(metaValue) ==
    metaValue.ValueType = "VARIABLE" /\ metaValue.Value = ""

\* Mutant: the two tests are joined by && instead of ||.
IsNotRegexText_And(metaValue) ==
    metaValue.Type # "REGEX" /\ metaValue.ValueType # "TEXT"

\* Anything but a REGEX entry with a TEXT value is skipped.
IsNotRegexText(metaValue) ==
    metaValue.Type # "REGEX" \/ metaValue.ValueType # "TEXT"

\* Mutant: the lookup before the compilation is lost.
IsCached_Never(cache, valueRawStr) == FALSE

\* The cache already holds a matcher for the text: the entry is skipped.
IsCached(cache, valueRawStr) == GetRegexMatcher(cache, valueRawStr) # NilMatcher

\* Mutant: the compiled matcher is never put into the cache.
CompileAndPut_NoPut(st, valueRawStr) ==
    LET regexValue == regexpCompile(valueRawStr, st.produced)
        err == CompileError(valueRawStr)
        tried == Append(st.compiled, valueRawStr)
    IN  IF err # "nil"
            THEN [st EXCEPT !.compiled = tried,
                            !.err = ErrInvalidRegex(valueRawStr, err)]
            ELSE [st EXCEPT !.compiled = tried,
                            !.produced = st.produced + 1]

\* Mutant: a compilation that fails empties the cache.
CompileAndPut_ResetsOnError(st, valueRawStr) ==
    LET regexValue == regexpCompile(valueRawStr, st.produced)
        err == CompileError(valueRawStr)
        tried == Append(st.compiled, valueRawStr)
    IN  IF err # "nil"
            THEN [st EXCEPT !.compiled = tried,
                            !.cache = EmptyMap,
                            !.err = ErrInvalidRegex(valueRawStr, err)]
            ELSE [st EXCEPT !.compiled = tried,
                            !.produced = st.produced + 1,
                            !.cache = PutRegexMatcher(st.cache, valueRawStr, regexValue)]

\* Mutant: the matcher is put into the cache before the error is looked at.
CompileAndPut_PutsFirst(st, valueRawStr) ==
    LET regexValue == regexpCompile(valueRawStr, st.produced)
        err == CompileError(valueRawStr)
        put == [st EXCEPT !.compiled = Append(st.compiled, valueRawStr),
                          !.cache = PutRegexMatcher(st.cache, valueRawStr, regexValue)]
    IN  IF err # "nil"
            THEN [put EXCEPT !.err = ErrInvalidRegex(valueRawStr, err)]
            ELSE [put EXCEPT !.produced = st.produced + 1]

\* Compile valueRawStr and put the matcher into the cache, or fail.
CompileAndPut(st, valueRawStr) ==
    LET regexValue == regexpCompile(valueRawStr, st.produced)
        err == CompileError(valueRawStr)
        tried == Append(st.compiled, valueRawStr)
    IN  IF err # "nil"
            THEN [st EXCEPT !.compiled = tried,
                            !.err = ErrInvalidRegex(valueRawStr, err)]
            ELSE [st EXCEPT !.compiled = tried,
                            !.produced = st.produced + 1,
                            !.cache = PutRegexMatcher(st.cache, valueRawStr, regexValue)]

\* Mutant: an entry whose matcher is already cached ends the loop (return nil
\* in place of continue).
RECURSIVE BuildLoop_ReturnsWhenCached(_, _, _)
BuildLoop_ReturnsWhenCached(metadata, order, st) ==
    IF order = <<>> THEN st
    ELSE LET metaValue == metadata[Head(order)]
             valueRawStr == metaValue.Value
             rest == Tail(order)
         IN  IF IsMatchAll(metaValue) THEN BuildLoop_ReturnsWhenCached(metadata, rest, st)
             ELSE IF IsEmptyVariable(metaValue)
                 THEN [st EXCEPT !.err = ErrEmptyVariable]
             ELSE IF IsNotRegexText(metaValue)
                 THEN BuildLoop_ReturnsWhenCached(metadata, rest, st)
             ELSE IF IsCached(st.cache, valueRawStr) THEN st
             ELSE LET next == CompileAndPut(st, valueRawStr)
                  IN  IF next.err # NilError THEN next
                      ELSE BuildLoop_ReturnsWhenCached(metadata, rest, next)

\* The loop over the entries of metadata, in the iteration order `order`
\* (a sequence of keys).
RECURSIVE BuildLoop(_, _, _)
BuildLoop(metadata, order, st) ==
    IF order = <<>> THEN st
    ELSE LET metaValue == metadata[Head(order)]
             valueRawStr == metaValue.Value
             rest == Tail(order)
         IN  IF IsMatchAll(metaValue) THEN BuildLoop(metadata, rest, st)
             ELSE IF IsEmptyVariable(metaValue)
                 THEN [st EXCEPT !.err = ErrEmptyVariable]
             ELSE IF IsNotRegexText(metaValue) THEN BuildLoop(metadata, rest, st)
             ELSE IF IsCached(st.cache, valueRawStr) THEN BuildLoop(metadata, rest, st)
             ELSE LET next == CompileAndPut(st, valueRawStr)
                  IN  IF next.err # NilError THEN next
                      ELSE BuildLoop(metadata, rest, next)

\* buildCacheFromMatcher(metadata, ruleCache), with the order in which the
\* range loop visits the entries: the cache afterwards and the error returned.
buildCacheFromMatcher(metadata, order, cache, produced) ==
    IF Len(metadata) = 0 THEN BuildState(cache, produced)
    ELSE BuildLoop(metadata, order, BuildState(cache, produced))

\* ------------------------------------------------------ rule payloads
\* A rule payload (proto.Message): whether it is the nil message, whether its
\* defaults have been filled in, and the metadata maps of its pattern-bearing
\* fields, in the order Validate walks them.
NilPayload == [isNil |-> TRUE, defaulted |-> FALSE, metas |-> <<>>]

Payload(metas) == [isNil |-> FALSE, defaulted |-> FALSE, metas |-> metas]

okRegex == MS("REGEX", "TEXT", "^foo.*")
badRegex == MS("REGEX", "TEXT", "(unclosed")
emptyRegex == MS("REGEX", "TEXT", "")
emptyVar == MS("EXACT", "VARIABLE", "")
wildcard == MS("REGEX", "TEXT", MatchAll)
exactMeta == MS("EXACT", "TEXT", "(unclosed")

\* The payloads the rule documents are constructed with.
DocPayloads ==
    { NilPayload,
      Payload(<< <<okRegex, wildcard>>, <<exactMeta>> >>),
      Payload(<< <<okRegex, badRegex>> >>),
      Payload(<< <<>>, <<emptyVar, emptyRegex>> >>) }

\* A rule section of a DiscoverResponse: the rule value and its revision.
NoRule == [value |-> NilPayload, revision |-> ""]

Rule(payload) ==
    [value |-> payload, revision |-> IF payload.isNil THEN "" ELSE "rev-1"]

\* resp.Service: nil, or the namespace and the name of the service.
NilService == [isNil |-> TRUE, Namespace |-> "", Name |-> ""]
EchoService == [isNil |-> FALSE, Namespace |-> "Production", Name |-> "echo"]

\* A *namingpb.DiscoverResponse.
NilResp ==
    [isNil |-> TRUE, Service |-> NilService, Type |-> "UNKNOWN",
     Routing |-> NoRule, RateLimit |-> NoRule]

Resp(service, type, routing, rateLimit) ==
    [isNil |-> FALSE, Service |-> service, Type |-> type,
     Routing |-> routing, RateLimit |-> rateLimit]

\* The payloads of the rate-limiting responses.
LimitPayloads == {Payload(<< <<okRegex, wildcard>>, <<exactMeta>> >>)}

\* The responses the model constructs documents from: the absent one, one
\* without a service, one of a kind with no assistant, and the routing and
\* the rate-limiting responses of the payloads above.
Responses ==
    {NilResp,
     Resp(NilService, "ROUTING", NoRule, NoRule),
     Resp(EchoService, "INSTANCE", NoRule, NoRule)}
    \cup {Resp(EchoService, "ROUTING", Rule(p), NoRule) : p \in DocPayloads}
    \cup {Resp(EchoService, "RATE_LIMIT", NoRule, Rule(p)) : p \in LimitPayloads}

\* ------------------------------------------- assistants and dispatch table
\* GetEventType(resp.GetType()).
GetEventType(type) ==
    CASE type = "INSTANCE"   -> "EventInstances"
      [] type = "ROUTING"    -> "EventRouting"
      [] type = "RATE_LIMIT" -> "EventRateLimiting"
      [] OTHER               -> "EventUnknown"

\* eventTypeToAssistant[eventType]: a missing key yields the nil interface.
eventTypeToAssistant(eventType) ==
    CASE eventType = "EventRouting"      -> "RoutingAssistant"
      [] eventType = "EventRateLimiting" -> "RateLimitingAssistant"
      [] OTHER                           -> "nil"

\* ServiceRuleAssistant.ParseRuleValue(resp): the rule value and the revision.
ParseRuleValue(assistant, resp) ==
    IF assistant = "RoutingAssistant" THEN resp.Routing ELSE resp.RateLimit

\* ServiceRuleAssistant.SetDefault(message): fills the defaults in place.
SetDefault(assistant, message) ==
    IF message.isNil THEN message ELSE [message EXCEPT !.defaulted = TRUE]

\* ServiceRuleAssistant.Validate(message, cache): builds the cache from every
\* metadata map of the message in turn and returns the first error.
\* orders[i] is the order in which the i-th map is iterated.
RECURSIVE ValidateFrom(_, _, _, _)
ValidateFrom(metas, orders, i, st) ==
    IF i > Len(metas) THEN st
    ELSE LET r == buildCacheFromMatcher(metas[i], orders[i], st.cache, st.produced)
             next == [r EXCEPT !.compiled = st.compiled \o r.compiled]
         IN  IF next.err # NilError THEN next
             ELSE ValidateFrom(metas, orders, i + 1, next)

Validate(assistant, message, orders, cache, produced) ==
    ValidateFrom(message.metas, orders, 1, BuildState(cache, produced))

\* The iteration orders one Validate call may meet: one permutation a map.
IterationOrders(message) ==
    {o \in [1..Len(message.metas) -> UNION {Perms(n) : n \in 0..MaxEntries}] :
        \A i \in 1..Len(message.metas) : o[i] \in Perms(Len(message.metas[i]))}

\* ------------------------------------------------------- ServiceRuleInProto
\* The embedded *model.ServiceKey: nil, or a namespace and a service.
NilServiceKey == [isNil |-> TRUE, Namespace |-> "", Service |-> ""]

\* &ServiceRuleInProto{}: every field holds its zero value.  ruleCache is a
\* reference to a cache instance of the heap (0: nil).
ZeroValue ==
    [ServiceKey |-> NilServiceKey, initialized |-> FALSE, revision |-> "",
     ruleValue |-> NilPayload, ruleCache |-> 0, eventType |-> "EventUnknown",
     assistant |-> "nil", CacheLoaded |-> 0, validateError |-> NilError]

\* Mutant: the namespace and the service name are taken from each other.
NewServiceRuleInProto_SwappedKey(resp, newCache) ==
    IF resp.isNil
        THEN [panic |-> FALSE, allocates |-> FALSE, value |-> ZeroValue]
    ELSE IF resp.Service.isNil \/ eventTypeToAssistant(GetEventType(resp.Type)) = "nil"
        THEN [panic |-> TRUE, allocates |-> FALSE, value |-> ZeroValue]
    ELSE LET eventType == GetEventType(resp.Type)
             assistant == eventTypeToAssistant(eventType)
             parsed == ParseRuleValue(assistant, resp)
         IN  [panic |-> FALSE, allocates |-> TRUE,
              value |->
                [ServiceKey |-> [isNil |-> FALSE,
                                 Namespace |-> resp.Service.Name,
                                 Service |-> resp.Service.Namespace],
                 initialized |-> TRUE,
                 revision |-> parsed.revision,
                 ruleValue |-> parsed.value,
                 ruleCache |-> newCache,
                 eventType |-> eventType,
                 assistant |-> assistant,
                 CacheLoaded |-> 0,
                 validateError |-> NilError]]

\* Mutant: the document is returned without a rule cache of its own.
NewServiceRuleInProto_NoCache(resp, newCache) ==
    IF resp.isNil
        THEN [panic |-> FALSE, allocates |-> FALSE, value |-> ZeroValue]
    ELSE IF resp.Service.isNil \/ eventTypeToAssistant(GetEventType(resp.Type)) = "nil"
        THEN [panic |-> TRUE, allocates |-> FALSE, value |-> ZeroValue]
    ELSE [panic |-> FALSE, allocates |-> FALSE,
          value |->
            [ServiceKey |-> [isNil |-> FALSE,
                             Namespace |-> resp.Service.Namespace,
                             Service |-> resp.Service.Name],
             initialized |-> TRUE,
             revision |-> ParseRuleValue(eventTypeToAssistant(GetEventType(resp.Type)), resp).revision,
             ruleValue |-> ParseRuleValue(eventTypeToAssistant(GetEventType(resp.Type)), resp).value,
             ruleCache |-> 0,
             eventType |-> GetEventType(resp.Type),
             assistant |-> eventTypeToAssistant(GetEventType(resp.Type)),
             CacheLoaded |-> 0,
             validateError |-> NilError]]

\* Mutant: every document is handed one and the same rule cache.
NewServiceRuleInProto_SharedCache(resp, newCache) ==
    IF resp.isNil
        THEN [panic |-> FALSE, allocates |-> FALSE, value |-> ZeroValue]
    ELSE IF resp.Service.isNil \/ eventTypeToAssistant(GetEventType(resp.Type)) = "nil"
        THEN [panic |-> TRUE, allocates |-> FALSE, value |-> ZeroValue]
    ELSE [panic |-> FALSE, allocates |-> TRUE,
          value |->
            [ServiceKey |-> [isNil |-> FALSE,
                             Namespace |-> resp.Service.Namespace,
                             Service |-> resp.Service.Name],
             initialized |-> TRUE,
             revision |-> ParseRuleValue(eventTypeToAssistant(GetEventType(resp.Type)), resp).revision,
             ruleValue |-> ParseRuleValue(eventTypeToAssistant(GetEventType(resp.Type)), resp).value,
             ruleCache |-> 1,
             eventType |-> GetEventType(resp.Type),
             assistant |-> eventTypeToAssistant(GetEventType(resp.Type)),
             CacheLoaded |-> 0,
             validateError |-> NilError]]

\* Mutant: a kind without an assistant yields a document with no rule value
\* instead of the nil-interface panic.
NewServiceRuleInProto_ToleratesNoAssistant(resp, newCache) ==
    IF resp.isNil
        THEN [panic |-> FALSE, allocates |-> FALSE, value |-> ZeroValue]
    ELSE IF resp.Service.isNil
        THEN [panic |-> TRUE, allocates |-> FALSE, value |-> ZeroValue]
    ELSE [panic |-> FALSE, allocates |-> TRUE,
          value |->
            [ServiceKey |-> [isNil |-> FALSE,
                             Namespace |-> resp.Service.Namespace,
                             Service |-> resp.Service.Name],
             initialized |-> TRUE,
             revision |-> IF eventTypeToAssistant(GetEventType(resp.Type)) = "nil" THEN ""
                          ELSE ParseRuleValue(eventTypeToAssistant(GetEventType(resp.Type)), resp).revision,
             ruleValue |-> IF eventTypeToAssistant(GetEventType(resp.Type)) = "nil" THEN NilPayload
                           ELSE ParseRuleValue(eventTypeToAssistant(GetEventType(resp.Type)), resp).value,
             ruleCache |-> newCache,
             eventType |-> GetEventType(resp.Type),
             assistant |-> eventTypeToAssistant(GetEventType(resp.Type)),
             CacheLoaded |-> 0,
             validateError |-> NilError]]

\* NewServiceRuleInProto(resp): whether the call panics, the document it
\* returns, and whether it allocated a rule cache (then newCache is the
\* reference model.NewRuleCache() returned).
NewServiceRuleInProto(resp, newCache) ==
    IF resp.isNil
        THEN [panic |-> FALSE, allocates |-> FALSE, value |-> ZeroValue]
    ELSE IF resp.Service.isNil
        \* resp.Service.Namespace dereferences the nil service
        THEN [panic |-> TRUE, allocates |-> FALSE, value |-> ZeroValue]
    ELSE LET eventType == GetEventType(resp.Type)
             assistant == eventTypeToAssistant(eventType)
             parsed == ParseRuleValue(assistant, resp)
         IN  IF assistant = "nil"
                 \* value.assistant.ParseRuleValue on the nil interface
                 THEN [panic |-> TRUE, allocates |-> FALSE, value |-> ZeroValue]
                 ELSE [panic |-> FALSE, allocates |-> TRUE,
                       value |->
                         [ServiceKey |-> [isNil |-> FALSE,
                                          Namespace |-> resp.Service.Namespace,
                                          Service |-> resp.Service.Name],
                          initialized |-> TRUE,
                          revision |-> parsed.revision,
                          ruleValue |-> parsed.value,
                          ruleCache |-> newCache,
                          eventType |-> eventType,
                          assistant |-> assistant,
                          CacheLoaded |-> 0,
                          validateError |-> NilError]]

\* Mutant: a failed validation marks the document as not initialized.
ValidateAndBuildCache_UninitializesOnError(s, orders, cache, produced) ==
    IF s.assistant = "nil"
        THEN [panic |-> TRUE, err |-> NilError, value |-> s,
              validated |-> NilPayload,
              cache |-> cache, produced |-> produced, compiled |-> <<>>]
    ELSE LET message == SetDefault(s.assistant, s.ruleValue)
             r == Validate(s.assistant, message, orders, cache, produced)
         IN  [panic |-> FALSE, err |-> r.err,
              value |-> [s EXCEPT !.ruleValue = message,
                                  !.initialized = (r.err = NilError),
                                  !.validateError = IF r.err # NilError THEN r.err
                                                    ELSE s.validateError],
              validated |-> message,
              cache |-> r.cache, produced |-> r.produced, compiled |-> r.compiled]

\* Mutant: Validate runs on the payload as it is, and the defaults are filled
\* in only once it has passed.
ValidateAndBuildCache_ValidatesFirst(s, orders, cache, produced) ==
    IF s.assistant = "nil"
        THEN [panic |-> TRUE, err |-> NilError, value |-> s,
              validated |-> NilPayload,
              cache |-> cache, produced |-> produced, compiled |-> <<>>]
    ELSE LET message == s.ruleValue
             r == Validate(s.assistant, message, orders, cache, produced)
         IN  [panic |-> FALSE, err |-> r.err,
              value |-> [s EXCEPT !.ruleValue = IF r.err # NilError THEN message
                                                ELSE SetDefault(s.assistant, message),
                                  !.validateError = IF r.err # NilError THEN r.err
                                                    ELSE s.validateError],
              validated |-> message,
              cache |-> r.cache, produced |-> r.produced, compiled |-> r.compiled]

\* Mutant: a document that already holds a validation error is not validated
\* again.
ValidateAndBuildCache_OnceOnly(s, orders, cache, produced) ==
    IF s.assistant = "nil"
        THEN [panic |-> TRUE, err |-> NilError, value |-> s,
              validated |-> NilPayload,
              cache |-> cache, produced |-> produced, compiled |-> <<>>]
    ELSE IF s.validateError # NilError
        THEN [panic |-> FALSE, err |-> NilError, value |-> s,
              validated |-> s.ruleValue,
              cache |-> cache, produced |-> produced, compiled |-> <<>>]
    ELSE LET message == SetDefault(s.assistant, s.ruleValue)
             r == Validate(s.assistant, message, orders, cache, produced)
         IN  [panic |-> FALSE, err |-> r.err,
              value |-> [s EXCEPT !.ruleValue = message,
                                  !.validateError = IF r.err # NilError THEN r.err
                                                    ELSE s.validateError],
              validated |-> message,
              cache |-> r.cache, produced |-> r.produced, compiled |-> r.compiled]

\* Mutant: the failing path returns nil instead of err.
ValidateAndBuildCache_ReturnsNil(s, orders, cache, produced) ==
    IF s.assistant = "nil"
        THEN [panic |-> TRUE, err |-> NilError, value |-> s,
              validated |-> NilPayload,
              cache |-> cache, produced |-> produced, compiled |-> <<>>]
    ELSE LET message == SetDefault(s.assistant, s.ruleValue)
             r == Validate(s.assistant, message, orders, cache, produced)
         IN  [panic |-> FALSE, err |-> NilError,
              value |-> [s EXCEPT !.ruleValue = message,
                                  !.validateError = IF r.err # NilError THEN r.err
                                                    ELSE s.validateError],
              validated |-> message,
              cache |-> r.cache, produced |-> r.produced, compiled |-> r.compiled]

\* Mutant: the failing path does not store the error in the document.
ValidateAndBuildCache_DropsError(s, orders, cache, produced) ==
    IF s.assistant = "nil"
        THEN [panic |-> TRUE, err |-> NilError, value |-> s,
              validated |-> NilPayload,
              cache |-> cache, produced |-> produced, compiled |-> <<>>]
    ELSE LET message == SetDefault(s.assistant, s.ruleValue)
             r == Validate(s.assistant, message, orders, cache, produced)
         IN  [panic |-> FALSE, err |-> r.err,
              value |-> [s EXCEPT !.ruleValue = message],
              validated |-> message,
              cache |-> r.cache, produced |-> r.produced, compiled |-> r.compiled]

\* ValidateAndBuildCache(): whether the call panics, the error it returns,
\* the document and the cache afterwards, and the message that was handed to
\* the assistant's Validate.
ValidateAndBuildCache(s, orders, cache, produced) ==
    IF s.assistant = "nil"
        \* s.assistant.SetDefault on the nil interface
        THEN [panic |-> TRUE, err |-> NilError, value |-> s,
              validated |-> NilPayload,
              cache |-> cache, produced |-> produced, compiled |-> <<>>]
    ELSE LET message == SetDefault(s.assistant, s.ruleValue)
             r == Validate(s.assistant, message, orders, cache, produced)
         IN  [panic |-> FALSE, err |-> r.err,
              value |-> [s EXCEPT !.ruleValue = message,
                                  !.validateError = IF r.err # NilError THEN r.err
                                                    ELSE s.validateError],
              validated |-> message,
              cache |-> r.cache, produced |-> r.produced, compiled |-> r.compiled]

\* IsCacheLoaded(): atomic.LoadInt32(&s.CacheLoaded) > 0.
IsCacheLoaded(s) == s.CacheLoaded > 0

GetNamespace(s) == IF s.initialized THEN s.ServiceKey.Namespace ELSE ""

GetService(s) == IF s.initialized THEN s.ServiceKey.Service ELSE ""

GetValue(s) == s.ruleValue

GetType(s) == s.eventType

IsInitialized(s) == s.initialized

GetRevision(s) == s.revision

GetRuleCache(s) == s.ruleCache

GetValidateError(s) == s.validateError

\* ------------------------------------------------------------------ state
VARIABLES
    allocated,   \* allocated[d]: document d has been constructed and returned
    doc,         \* doc[d]: the fields of document d (a ServiceRuleInProto)
    source,      \* source[d]: the response the constructor was last handed for d
    heap,        \* the rule caches allocated so far: reference -> regexMatchers
    produced,    \* produced[c]: the matchers compiled so far for cache c
    ret,         \* ret[d]: how the last call on document d ended
    bMeta,       \* build harness: the metadata map under test
    bCache,      \* build harness: the regexMatchers of the rule cache
    bProduced,   \* build harness: the matchers compiled so far for the cache
    bLast,       \* build harness: the last build call, arguments and results
    bootResp,    \* loaded flag: the response the bootstrap path loads
    mem,         \* loaded flag: mem[loc], the writes to a field, oldest first
    view,        \* loaded flag: view[t][loc], the latest write thread t knows
    bootPc,      \* loaded flag: the next step of the bootstrap path
    readPc,      \* loaded flag: readPc[r], the next step of reader r
    seen,        \* loaded flag: seen[r], IsCacheLoaded() has returned true to r
    obs,         \* loaded flag: obs[r], what the last reads of reader r returned
    cMeta,       \* concurrent build: cMeta[t], the metadata map thread t builds
    cTodo,       \* concurrent build: cTodo[t], the keys thread t has yet to visit
    cPc,         \* concurrent build: cPc[t], the next step of thread t
    cCache,      \* concurrent build: the regexMatchers of the shared rule cache
    cProduced,   \* concurrent build: the matchers compiled so far for the cache
    cCompiled,   \* concurrent build: cCompiled[t], the texts thread t compiled
    cErr         \* concurrent build: cErr[t], the error thread t returned

docVars == <<allocated, doc, source, heap, produced, ret>>

buildVars == <<bMeta, bCache, bProduced, bLast>>

flagVars == <<bootResp, mem, view, bootPc, readPc, seen, obs>>

concVars == <<cMeta, cTodo, cPc, cCache, cProduced, cCompiled, cErr>>

vars == <<allocated, doc, source, heap, produced, ret,
          bMeta, bCache, bProduced, bLast,
          bootResp, mem, view, bootPc, readPc, seen, obs,
          cMeta, cTodo, cPc, cCache, cProduced, cCompiled, cErr>>

\* How a call ended: its operation, "return" or "panic", and the error
\* returned.
NoCall == [op |-> "none", kind |-> "none", err |-> NilError,
           again |-> FALSE, validated |-> NilPayload]

\* again: the call before this one on the same document was the same
\* operation and returned; validated: the message Validate was handed.
Outcome(op, panic, err, again, validated) ==
    [op |-> op, kind |-> IF panic THEN "panic" ELSE "return", err |-> err,
     again |-> again, validated |-> validated]

DocInit ==
    /\ allocated = [d \in DocIds |-> FALSE]
    /\ doc = [d \in DocIds |-> ZeroValue]
    /\ source = [d \in DocIds |-> NilResp]
    /\ heap = <<>>
    /\ produced = <<>>
    /\ ret = [d \in DocIds |-> NoCall]

\* A caller constructs document d from resp.  The rule cache that
\* model.NewRuleCache() returns is a new one; its reference is named after
\* the document it is made for.
CallNew(d, resp) ==
    /\ ~allocated[d]
    /\ LET r == NewServiceRuleInProto(resp, d)
       IN  /\ ret' = [ret EXCEPT ![d] = Outcome("new", r.panic, NilError,
                                                FALSE, NilPayload)]
           /\ source' = [source EXCEPT ![d] = resp]
           /\ IF r.panic
                  THEN UNCHANGED <<allocated, doc, heap, produced>>
                  ELSE /\ allocated' = [allocated EXCEPT ![d] = TRUE]
                       /\ doc' = [doc EXCEPT ![d] = r.value]
                       /\ heap' = IF r.allocates THEN (d :> NewRuleCache) @@ heap ELSE heap
                       /\ produced' = IF r.allocates THEN (d :> 0) @@ produced ELSE produced
    /\ UNCHANGED <<buildVars, flagVars, concVars>>

\* A caller validates document d; orders are the map iteration orders met.
CallValidate(d) ==
    /\ allocated[d]
    /\ \E orders \in IterationOrders(doc[d].ruleValue) :
       LET s == doc[d]
           c == s.ruleCache
           r == ValidateAndBuildCache(s, orders,
                    IF c = 0 THEN EmptyMap ELSE heap[c],
                    IF c = 0 THEN 0 ELSE produced[c])
       IN  /\ r.produced <= MaxCompiles
           /\ ret' = [ret EXCEPT ![d] = Outcome("validate", r.panic, r.err,
                                                ret[d].op = "validate" /\ ret[d].kind = "return",
                                                r.validated)]
           /\ doc' = [doc EXCEPT ![d] = r.value]
           /\ heap' = IF c = 0 THEN heap ELSE [heap EXCEPT ![c] = r.cache]
           /\ produced' = IF c = 0 THEN produced ELSE [produced EXCEPT ![c] = r.produced]
           /\ UNCHANGED <<allocated, source>>
    /\ UNCHANGED <<buildVars, flagVars, concVars>>

\* The bootstrap path marks document d as loaded from the cache file:
\* atomic.StoreInt32(&s.CacheLoaded, 1).
StoreCacheLoaded(d) ==
    /\ allocated[d]
    /\ doc[d].CacheLoaded = 0
    /\ doc' = [doc EXCEPT ![d].CacheLoaded = 1]
    /\ UNCHANGED <<allocated, source, heap, produced, ret>>
    /\ UNCHANGED <<buildVars, flagVars, concVars>>

Next ==
    \/ \E d \in DocIds, resp \in Responses : CallNew(d, resp)
    \/ \E d \in DocIds : CallValidate(d)
    \/ \E d \in DocIds : StoreCacheLoaded(d)

\* ---------------------------------------------------------- build harness
\* buildCacheFromMatcher on its own: one metadata map, drawn at the start, is
\* built into one rule cache again and again, in any iteration order, between
\* builds of other (one-entry) metadata maps into the same cache.
\* again: the call before this one built the same map (the map under test).
NoBuild ==
    [op |-> "none", again |-> FALSE, metadata |-> <<>>, order |-> <<>>,
     before |-> EmptyMap, producedBefore |-> 0,
     err |-> NilError, compiled |-> <<>>]

BuildIdle ==
    /\ bMeta = <<>>
    /\ bCache = NewRuleCache
    /\ bProduced = 0
    /\ bLast = NoBuild

BuildInit ==
    /\ bMeta \in MetadataMaps
    /\ bCache = NewRuleCache
    /\ bProduced = 0
    /\ bLast = NoBuild

\* One call buildCacheFromMatcher(metadata, bCache) that iterates in `order`.
Build(op, metadata, order) ==
    LET r == buildCacheFromMatcher(metadata, order, bCache, bProduced)
    IN  /\ r.produced <= MaxCompiles
        /\ bCache' = r.cache
        /\ bProduced' = r.produced
        /\ bLast' = [op |-> op, again |-> (op = "meta" /\ bLast.op = "meta"),
                     metadata |-> metadata, order |-> order,
                     before |-> bCache, producedBefore |-> bProduced,
                     err |-> r.err, compiled |-> r.compiled]
        /\ UNCHANGED bMeta
        /\ UNCHANGED <<docVars, flagVars, concVars>>

\* The map under test is built.
BuildMeta == \E order \in Perms(Len(bMeta)) : Build("meta", bMeta, order)

\* Another map, of one regular expression, is built into the same cache.
BuildOther ==
    \E text \in Texts : Build("other", <<MS("REGEX", "TEXT", text)>>, <<1>>)

NextBuild ==
    \/ BuildMeta
    \/ BuildOther

\* -------------------------------------------------------- the loaded flag
\* The bootstrap path constructs a document from a persisted response and then
\* raises CacheLoaded, while readers that hold the document call
\* IsCacheLoaded() and read the payload and the revision.  Memory follows the
\* Go memory model: a plain read may return any write the reading thread is
\* not known to have passed, and an atomic load that observes an atomic store
\* learns every write that happened before the store.
MaxReaders == 2

Readers == 1..MaxReaders

\* The bootstrap thread is thread 0.
Threads == 0..MaxReaders

Locs == {"ruleValue", "revision", "CacheLoaded"}

\* A view: for each field, the position in mem of the latest write known.
ZeroView == [l \in Locs |-> 1]

JoinView(v, w) == [l \in Locs |-> IF v[l] >= w[l] THEN v[l] ELSE w[l]]

\* A write: the value written and, for an atomic store, the view it releases.
Write(val, rel) == [val |-> val, rel |-> rel]

\* The responses the bootstrap path may load: those a document is made of.
BootResponses ==
    {resp \in Responses : LET r == NewServiceRuleInProto(resp, 1)
                          IN  ~r.panic /\ r.value.initialized}

\* The document the bootstrap path constructs.
BootDoc == NewServiceRuleInProto(bootResp, 1).value

\* Mutant: the flag is read with a plain load, which learns nothing.
LoadInt32_Plain(v, ts, write) == [v EXCEPT !["CacheLoaded"] = ts]

\* atomic.LoadInt32(&s.CacheLoaded) that observes the write at position ts:
\* the view of the loading thread afterwards.
LoadInt32(v, ts, write) == JoinView([v EXCEPT !["CacheLoaded"] = ts], write.rel)

\* atomic.StoreInt32(&s.CacheLoaded, 1) as the write at position ts: the
\* write, which releases the view of the storing thread.
StoreInt32(v, ts, val) == Write(val, [v EXCEPT !["CacheLoaded"] = ts])

NoObs ==
    [loaded |-> FALSE, ruleValue |-> NilPayload, valueAfter |-> FALSE,
     revision |-> "", revisionAfter |-> FALSE]

\* &ServiceRuleInProto{}: every field holds its zero value.
ZeroMem ==
    [l \in Locs |->
        CASE l = "ruleValue"   -> <<Write(ZeroValue.ruleValue, ZeroView)>>
          [] l = "revision"    -> <<Write(ZeroValue.revision, ZeroView)>>
          [] l = "CacheLoaded" -> <<Write(ZeroValue.CacheLoaded, ZeroView)>>]

FlagIdle ==
    /\ bootResp = NilResp
    /\ mem = ZeroMem
    /\ view = [t \in Threads |-> ZeroView]
    /\ bootPc = "idle"
    /\ readPc = [r \in Readers |-> "idle"]
    /\ seen = [r \in Readers |-> FALSE]
    /\ obs = [r \in Readers |-> NoObs]

FlagInit ==
    /\ bootResp \in BootResponses
    /\ mem = ZeroMem
    /\ view = [t \in Threads |-> ZeroView]
    /\ bootPc = "ruleValue"
    /\ readPc = [r \in Readers |-> "flag"]
    /\ seen = [r \in Readers |-> FALSE]
    /\ obs = [r \in Readers |-> NoObs]

\* A plain write of val to field l by thread t.
PlainWrite(t, l, val) ==
    /\ mem' = [mem EXCEPT ![l] = Append(@, Write(val, ZeroView))]
    /\ view' = [view EXCEPT ![t][l] = Len(mem[l]) + 1]

\* NewServiceRuleInProto: value.ruleValue is assigned.
BootWriteValue ==
    /\ bootPc = "ruleValue"
    /\ PlainWrite(0, "ruleValue", BootDoc.ruleValue)
    /\ bootPc' = "revision"
    /\ UNCHANGED <<bootResp, readPc, seen, obs, docVars, buildVars, concVars>>

\* NewServiceRuleInProto: value.revision is assigned.
BootWriteRevision ==
    /\ bootPc = "revision"
    /\ PlainWrite(0, "revision", BootDoc.revision)
    /\ bootPc' = "raise"
    /\ UNCHANGED <<bootResp, readPc, seen, obs, docVars, buildVars, concVars>>

\* The bootstrap path raises the flag: atomic.StoreInt32(&s.CacheLoaded, 1).
BootRaise ==
    /\ bootPc = "raise"
    /\ LET ts == Len(mem["CacheLoaded"]) + 1
       IN  /\ mem' = [mem EXCEPT !["CacheLoaded"] = Append(@, StoreInt32(view[0], ts, 1))]
           /\ view' = [view EXCEPT ![0]["CacheLoaded"] = ts]
    /\ bootPc' = "done"
    /\ UNCHANGED <<bootResp, readPc, seen, obs, docVars, buildVars, concVars>>

\* Reader r calls IsCacheLoaded(): the atomic load observes the latest store.
ReadFlag(r) ==
    /\ readPc[r] = "flag"
    /\ LET ts == Len(mem["CacheLoaded"])
           write == mem["CacheLoaded"][ts]
           loaded == IsCacheLoaded([CacheLoaded |-> write.val])
       IN  /\ view' = [view EXCEPT ![r] = LoadInt32(view[r], ts, write)]
           /\ seen' = [seen EXCEPT ![r] = seen[r] \/ loaded]
           /\ obs' = [obs EXCEPT ![r].loaded = loaded]
    /\ readPc' = [readPc EXCEPT ![r] = "ruleValue"]
    /\ UNCHANGED <<bootResp, mem, bootPc, docVars, buildVars, concVars>>

\* Reader r calls GetValue(): a plain read of s.ruleValue.
ReadValue(r) ==
    /\ readPc[r] = "ruleValue"
    /\ \E ts \in view[r]["ruleValue"]..Len(mem["ruleValue"]) :
           /\ view' = [view EXCEPT ![r]["ruleValue"] = ts]
           /\ obs' = [obs EXCEPT ![r].ruleValue = GetValue([ruleValue |-> mem["ruleValue"][ts].val]),
                                 ![r].valueAfter = seen[r]]
    /\ readPc' = [readPc EXCEPT ![r] = "revision"]
    /\ UNCHANGED <<bootResp, mem, bootPc, seen, docVars, buildVars, concVars>>

\* Reader r calls GetRevision(): a plain read of s.revision.
ReadRevision(r) ==
    /\ readPc[r] = "revision"
    /\ \E ts \in view[r]["revision"]..Len(mem["revision"]) :
           /\ view' = [view EXCEPT ![r]["revision"] = ts]
           /\ obs' = [obs EXCEPT ![r].revision = GetRevision([revision |-> mem["revision"][ts].val]),
                                 ![r].revisionAfter = seen[r]]
    /\ readPc' = [readPc EXCEPT ![r] = "flag"]
    /\ UNCHANGED <<bootResp, mem, bootPc, seen, docVars, buildVars, concVars>>

NextFlag ==
    \/ BootWriteValue
    \/ BootWriteRevision
    \/ BootRaise
    \/ \E r \in Readers : ReadFlag(r)
    \/ \E r \in Readers : ReadValue(r)
    \/ \E r \in Readers : ReadRevision(r)

\* ------------------------------------------------------- concurrent build
\* Several threads call buildCacheFromMatcher on one rule cache at the same
\* time, each with its own metadata map and its own iteration order.  A step
\* of a thread is one pass from the head of the range loop to the lookup in
\* the cache, or the compilation and the put that follow a lookup that found
\* nothing; the compilation touches nothing shared, so it is one step with
\* the put.
MaxBuilders == 2

Builders == 1..MaxBuilders

\* The metadata maps the threads build; each holds the pattern "^foo.*".
ConcMaps ==
    {<<okRegex>>, <<okRegex, emptyRegex>>, <<exactMeta, okRegex>>, <<okRegex, badRegex>>}

ConcIdle ==
    /\ cMeta = <<>>
    /\ cTodo = <<>>
    /\ cPc = <<>>
    /\ cCache = NewRuleCache
    /\ cProduced = 0
    /\ cCompiled = <<>>
    /\ cErr = <<>>

ConcInit ==
    /\ cMeta \in [Builders -> ConcMaps]
    /\ cTodo \in {f \in [Builders -> UNION {Perms(Len(m)) : m \in ConcMaps}] :
                     \A t \in Builders : Len(f[t]) = Len(cMeta[t])}
    /\ cPc = [t \in Builders |-> "range"]
    /\ cCache = NewRuleCache
    /\ cProduced = 0
    /\ cCompiled = [t \in Builders |-> <<>>]
    /\ cErr = [t \in Builders |-> NilError]

\* Thread t takes the next entry of its map and runs the loop body down to
\* ruleCache.GetRegexMatcher(valueRawStr).
Lookup(t) ==
    /\ cPc[t] = "range" /\ cTodo[t] # <<>>
    /\ LET metaValue == cMeta[t][Head(cTodo[t])]
           continue == /\ cTodo' = [cTodo EXCEPT ![t] = Tail(cTodo[t])]
                       /\ UNCHANGED <<cPc, cErr>>
       IN  IF IsMatchAll(metaValue) THEN continue
           ELSE IF IsEmptyVariable(metaValue)
               THEN /\ cErr' = [cErr EXCEPT ![t] = ErrEmptyVariable]
                    /\ cPc' = [cPc EXCEPT ![t] = "failed"]
                    /\ UNCHANGED cTodo
           ELSE IF IsNotRegexText(metaValue) THEN continue
           ELSE IF IsCached(cCache, metaValue.Value) THEN continue
           ELSE /\ cPc' = [cPc EXCEPT ![t] = "compile"]
                /\ UNCHANGED <<cTodo, cErr>>
    /\ UNCHANGED <<cMeta, cCache, cProduced, cCompiled>>
    /\ UNCHANGED <<docVars, buildVars, flagVars>>

\* Thread t, whose lookup found no matcher, compiles the text and puts the
\* matcher into the cache, or returns the error of the compilation.
CompilePut(t) ==
    /\ cPc[t] = "compile"
    /\ LET valueRawStr == cMeta[t][Head(cTodo[t])].Value
           r == CompileAndPut(BuildState(cCache, cProduced), valueRawStr)
       IN  /\ cCompiled' = [cCompiled EXCEPT ![t] = Append(cCompiled[t], valueRawStr)]
           /\ cCache' = r.cache
           /\ cProduced' = r.produced
           /\ cErr' = [cErr EXCEPT ![t] = r.err]
           /\ IF r.err # NilError
                  THEN /\ cPc' = [cPc EXCEPT ![t] = "failed"]
                       /\ UNCHANGED cTodo
                  ELSE /\ cPc' = [cPc EXCEPT ![t] = "range"]
                       /\ cTodo' = [cTodo EXCEPT ![t] = Tail(cTodo[t])]
    /\ UNCHANGED cMeta
    /\ UNCHANGED <<docVars, buildVars, flagVars>>

\* Thread t has visited every entry: return nil.
ReturnNil(t) ==
    /\ cPc[t] = "range" /\ cTodo[t] = <<>>
    /\ cPc' = [cPc EXCEPT ![t] = "done"]
    /\ UNCHANGED <<cMeta, cTodo, cCache, cProduced, cCompiled, cErr>>
    /\ UNCHANGED <<docVars, buildVars, flagVars>>

NextConc ==
    \/ \E t \in Builders : Lookup(t)
    \/ \E t \in Builders : CompilePut(t)
    \/ \E t \in Builders : ReturnNil(t)

\* ---------------------------------------------------------- specifications
\* The rule documents: construction, validation, the loaded flag.
Init == DocInit /\ BuildIdle /\ FlagIdle /\ ConcIdle

Spec == Init /\ [][Next]_vars

\* buildCacheFromMatcher over every metadata map and every iteration order.
InitBuild == DocInit /\ BuildInit /\ FlagIdle /\ ConcIdle

SpecBuild == InitBuild /\ [][NextBuild]_vars

\* The bootstrap path and the readers of the loaded flag.
InitFlag == DocInit /\ BuildIdle /\ FlagInit /\ ConcIdle

SpecFlag == InitFlag /\ [][NextFlag]_vars

\* Threads that build into one rule cache at the same time.
InitConc == DocInit /\ BuildIdle /\ FlagIdle /\ ConcInit

SpecConc == InitConc /\ [][NextConc]_vars

\* ============================================================== properties
\* What the properties say of an entry, in the words of the specification.
IsRegexText(metaValue) == metaValue.Type = "REGEX" /\ metaValue.ValueType = "TEXT"

IsWildcard(metaValue) == metaValue.Value = "*"

IsEmptyVar(metaValue) == metaValue.ValueType = "VARIABLE" /\ metaValue.Value = ""

IsInvalidRegex(metaValue) ==
    IsRegexText(metaValue) /\ ~IsWildcard(metaValue) /\ ~Compiles(metaValue.Value)

Range(seq) == {seq[i] : i \in 1..Len(seq)}

Min(S) == CHOOSE x \in S : \A y \in S : x <= y

\* The entries of the last build call, in the order the call visited them.
Visited == [k \in 1..Len(bLast.order) |-> bLast.metadata[bLast.order[k]]]

\* The positions of Visited that end a build: an empty variable reference or
\* a regular expression that does not compile.
Stops == {k \in 1..Len(Visited) : IsEmptyVar(Visited[k]) \/ IsInvalidRegex(Visited[k])}

\* The last call on document d was a validate call that returned.
Validated(d) == ret[d].op = "validate" /\ ret[d].kind = "return"

\* The entries of the metadata maps of a payload.
EntriesOf(message) ==
    UNION {Range(message.metas[i]) : i \in 1..Len(message.metas)}

\* ---------------------------------------------------------------------- C1
\* C1: a validate call on a document constructed from an absent (nil) source
\* never panics: it no-ops or is rejected with an ordinary error.
C1_ValidateOnAbsentSourceNeverPanics ==
    \A d \in DocIds :
        (allocated[d] /\ source[d].isNil /\ ret[d].op = "validate")
            => ret[d].kind = "return"

\* ---------------------------------------------------------------------- C2
\* C2: a build that meets a Regex/Text entry whose text does not compile
\* returns an InvalidPattern error naming that text (with the cause), the text
\* is no key of the cache afterwards, and no text that does not compile is
\* ever a key of the cache.
C2_InvalidPatternReportedAndNeverCached ==
    /\ \A t \in DOMAIN bCache : Compiles(t) /\ bCache[t].pattern = t
    /\ IsInvalidPattern(bLast.err) => bLast.err.pattern \notin DOMAIN bCache
    /\ (bLast.op # "none" /\ Stops # {} /\ IsInvalidRegex(Visited[Min(Stops)]))
           => bLast.err = ErrInvalidRegex(Visited[Min(Stops)].Value,
                                          CompileError(Visited[Min(Stops)].Value))

\* A build compiled one pattern, then failed on "(unclosed", which it names
\* and which the cache does not hold.
C2_Witness ==
    /\ bLast.op = "meta"
    /\ bLast.compiled = <<"^foo.*", "(unclosed">>
    /\ IsInvalidPattern(bLast.err) /\ bLast.err.pattern = "(unclosed"
    /\ DOMAIN bCache = {"^foo.*"}

\* ---------------------------------------------------------------------- C3
\* C3: whenever a validate call returns nil, GetValidateError() is nil
\* afterwards and the cache holds a matcher for every Regex/Text non-wildcard
\* pattern text of the payload, for every call of any sequence of calls.
C3_ValidatedOkHasNoErrorAndFullCache ==
    \A d \in DocIds :
        (Validated(d) /\ ret[d].err = NilError) =>
            /\ GetValidateError(doc[d]) = NilError
            /\ \A metaValue \in EntriesOf(GetValue(doc[d])) :
                   (IsRegexText(metaValue) /\ ~IsWildcard(metaValue)) =>
                       /\ GetRuleCache(doc[d]) # 0
                       /\ metaValue.Value \in DOMAIN heap[GetRuleCache(doc[d])]
                       /\ heap[GetRuleCache(doc[d])][metaValue.Value].pattern
                              = metaValue.Value

\* A validate call returned nil on a document whose payload holds "^foo.*".
C3_Witness ==
    \E d \in DocIds :
        /\ Validated(d) /\ ret[d].err = NilError
        /\ okRegex \in EntriesOf(GetValue(doc[d]))
        /\ DOMAIN heap[GetRuleCache(doc[d])] = {"^foo.*"}

\* ---------------------------------------------------------------------- C4
\* C4: a validation failure is captured, not thrown: a validate call on an
\* initialized document returns normally, and when it returns an error e,
\* GetValidateError() is e afterwards and the document keeps its revision and
\* its identity.
C4_FailureCapturedOnDocument ==
    \A d \in DocIds :
        /\ (allocated[d] /\ IsInitialized(doc[d]) /\ ret[d].op = "validate")
               => ret[d].kind = "return"
        /\ (Validated(d) /\ ret[d].err # NilError) =>
               /\ GetValidateError(doc[d]) = ret[d].err
               /\ allocated[d]
               /\ GetRevision(doc[d])
                      = ParseRuleValue(doc[d].assistant, source[d]).revision
               /\ GetNamespace(doc[d]) = source[d].Service.Namespace
               /\ GetService(doc[d]) = source[d].Service.Name

\* A validate call returned the InvalidPattern error of "(unclosed".
C4_Witness ==
    \E d \in DocIds :
        /\ Validated(d)
        /\ IsInvalidPattern(ret[d].err) /\ ret[d].err.pattern = "(unclosed"
        /\ GetRevision(doc[d]) = "rev-1"

\* ---------------------------------------------------------------------- C5
\* C5 as claimed: when the same map is built twice in sequence, GetMatcher(P)
\* returns the same object after the first run and after the second, for the
\* text P of every Regex/Text entry of the map.
C5_SameMatcherAfterBothRuns ==
    (bLast.op = "meta" /\ bLast.again) =>
        \A metaValue \in Range(bMeta) :
            IsRegexText(metaValue) =>
                GetRegexMatcher(bCache, metaValue.Value)
                    = GetRegexMatcher(bLast.before, metaValue.Value)

\* C5 as amended: when the same map is built twice in sequence, at most one
\* matcher is inserted for the text P of a Regex/Text entry, and if the first
\* run left a matcher for P the second run neither compiles nor re-inserts P
\* and GetMatcher(P) returns that same object after it.
C5_IdempotentCompilation ==
    (bLast.op = "meta" /\ bLast.again) =>
        \A metaValue \in Range(bMeta) :
            IsRegexText(metaValue) =>
                LET P == metaValue.Value
                IN  /\ Cardinality({k \in 1..Len(bLast.compiled) :
                                       bLast.compiled[k] = P}) <= 1
                    /\ P \in DOMAIN bLast.before =>
                           /\ P \notin Range(bLast.compiled)
                           /\ P \in DOMAIN bCache
                           /\ bCache[P] = bLast.before[P]

\* The second of two runs over a map with "^foo.*" compiled nothing and left
\* the matcher of the first run in place.
C5_Witness ==
    /\ bLast.op = "meta" /\ bLast.again
    /\ okRegex \in Range(bMeta)
    /\ bLast.compiled = <<>>
    /\ "^foo.*" \in DOMAIN bLast.before
    /\ bCache = bLast.before

\* ---------------------------------------------------------------------- C6
\* C6 as claimed: a build over a map with an entry valueKind=Variable,
\* value="" always fails with a MalformedReference error.
C6_EmptyVariableIsMalformedReference ==
    (bLast.op # "none" /\ \E metaValue \in Range(bLast.metadata) : IsEmptyVar(metaValue))
        => IsMalformedReference(bLast.err)

\* C6 as amended: such a build always fails; the error is MalformedReference
\* unless the iteration meets, before any empty variable reference, a
\* Regex/Text entry whose text does not compile, and then it is the
\* InvalidPattern error of that text.
C6_EmptyVariableRejected ==
    (bLast.op # "none" /\ \E metaValue \in Range(bLast.metadata) : IsEmptyVar(metaValue))
        => /\ bLast.err # NilError
           /\ Stops # {}
           /\ IF IsEmptyVar(Visited[Min(Stops)])
                  THEN bLast.err = ErrEmptyVariable
                  ELSE /\ IsInvalidPattern(bLast.err)
                       /\ bLast.err.pattern = Visited[Min(Stops)].Value

\* A build compiled "^foo.*" and then failed on an empty variable reference
\* of type Exact.
C6_Witness ==
    /\ bLast.op = "meta"
    /\ MS("EXACT", "VARIABLE", "") \in Range(bLast.metadata)
    /\ bLast.compiled = <<"^foo.*">>
    /\ IsMalformedReference(bLast.err)

\* ---------------------------------------------------------------------- C7
\* The order of the last build call without the keys of its wildcard entries.
WithoutWildcards ==
    SelectSeq(bLast.order, LAMBDA k : ~IsWildcard(bLast.metadata[k]))

\* C7: an entry of value "*" never triggers a compilation and never causes
\* an error, whatever its type and value kind: the build ends as it would
\* without its wildcard entries, "*" is never handed to the compiler, no
\* error names it, and "*" is never a key of the cache.
C7_WildcardSkipped ==
    /\ "*" \notin DOMAIN bCache
    /\ "*" \notin Range(bLast.compiled)
    /\ bLast.err.pattern # "*"
    /\ bLast.op # "none" =>
           LET r == BuildLoop(bLast.metadata, WithoutWildcards,
                              BuildState(bLast.before, bLast.producedBefore))
           IN  /\ r.err = bLast.err
               /\ r.cache = bCache
               /\ r.compiled = bLast.compiled
    /\ (bLast.op # "none" /\ \A metaValue \in Range(bLast.metadata) : IsWildcard(metaValue))
           => bLast.err = NilError /\ bCache = bLast.before

\* A build over a Regex/Text wildcard and "^foo.*" returned nil and cached
\* only "^foo.*".
C7_Witness ==
    /\ bLast.op = "meta"
    /\ bLast.metadata = <<MS("REGEX", "TEXT", "*"), okRegex>>
    /\ bLast.order = <<1, 2>>
    /\ bLast.err = NilError
    /\ DOMAIN bCache = {"^foo.*"}

\* ---------------------------------------------------------------------- C8
\* C8: only Regex/Text entries are compiled: every text handed to the
\* compiler, every key the call adds to the cache and every text an
\* InvalidPattern error names is the value of a Regex/Text entry of the map,
\* so a call over Exact and Regex/Variable entries alone compiles nothing,
\* adds nothing and returns no InvalidPattern error.
C8_OnlyRegexTextCompiled ==
    LET regexTexts == {metaValue.Value : metaValue \in
                          {mv \in Range(bLast.metadata) : IsRegexText(mv)}}
    IN  /\ Range(bLast.compiled) \subseteq regexTexts
        /\ (DOMAIN bCache \ DOMAIN bLast.before) \subseteq regexTexts
        /\ IsInvalidPattern(bLast.err) => bLast.err.pattern \in regexTexts
        /\ regexTexts = {} =>
               /\ bLast.compiled = <<>>
               /\ bCache = bLast.before
               /\ ~IsInvalidPattern(bLast.err)

\* A build over an Exact entry of text "(unclosed" and a Regex/Variable entry
\* returned nil and compiled nothing.
C8_Witness ==
    /\ bLast.op = "meta"
    /\ bLast.metadata = <<MS("EXACT", "TEXT", "(unclosed"), MS("REGEX", "VARIABLE", "(unclosed")>>
    /\ bLast.err = NilError
    /\ bLast.compiled = <<>>
    /\ bCache = bLast.before

\* ---------------------------------------------------------------------- C9
\* C9: once IsCacheLoaded() has returned true to a thread, every later read
\* of the payload and of the revision by that thread returns the value the
\* constructor wrote before the flag was raised, and every later
\* IsCacheLoaded() of that thread returns true.
C9_LoadedFlagPublishesDocument ==
    \A r \in Readers :
        /\ obs[r].valueAfter => obs[r].ruleValue = BootDoc.ruleValue
        /\ obs[r].revisionAfter => obs[r].revision = BootDoc.revision
        /\ seen[r] => obs[r].loaded

\* A reader saw the flag raised, read the payload and the revision of the
\* constructed document, and saw the flag raised again.
C9_Witness ==
    \E r \in Readers :
        /\ seen[r] /\ obs[r].loaded
        /\ obs[r].valueAfter /\ obs[r].revisionAfter
        /\ obs[r].ruleValue # NilPayload /\ obs[r].revision = "rev-1"
        /\ readPc[r] = "ruleValue"
        /\ \E q \in Readers : q # r /\ ~seen[q] /\ obs[q].ruleValue # NilPayload


\* --------------------------------------------------------------------- C10
\* C10: a document constructed from an absent source reports
\* IsInitialized() false, an empty namespace and service, no payload and an
\* empty revision, in every later state; a document constructed from a present
\* source reports IsInitialized() true and the namespace and service of the
\* source.
C10_AccessorsFollowSource ==
    \A d \in DocIds :
        allocated[d] =>
            IF source[d].isNil
                THEN /\ IsInitialized(doc[d]) = FALSE
                     /\ GetNamespace(doc[d]) = ""
                     /\ GetService(doc[d]) = ""
                     /\ GetValue(doc[d]) = NilPayload
                     /\ GetRevision(doc[d]) = ""
                ELSE /\ IsInitialized(doc[d]) = TRUE
                     /\ GetNamespace(doc[d]) = source[d].Service.Namespace
                     /\ GetService(doc[d]) = source[d].Service.Name

\* A document from an absent source after a validate call and the raising of
\* its loaded flag, beside a validated document from a present source.
C10_Witness ==
    \E d, e \in DocIds :
        /\ allocated[d] /\ source[d].isNil
        /\ ret[d].op = "validate" /\ IsCacheLoaded(doc[d])
        /\ allocated[e] /\ ~source[e].isNil /\ Validated(e)
        /\ GetNamespace(doc[e]) = "Production" /\ GetService(doc[e]) = "echo"

\* --------------------------------------------------------------------- C11
\* C11: constructing a document from a present response whose kind has no
\* assistant in the table is fatal to the caller: the constructor panics and
\* returns no document, so every initialized document has a kind with an
\* assistant.
C11_UnknownKindIsFatal ==
    \A d \in DocIds :
        /\ (/\ ret[d].op = "new"
            /\ ~source[d].isNil /\ ~source[d].Service.isNil
            /\ GetEventType(source[d].Type) \notin {"EventRouting", "EventRateLimiting"})
               => (ret[d].kind = "panic" /\ ~allocated[d])
        /\ (allocated[d] /\ IsInitialized(doc[d])) =>
               /\ GetType(doc[d]) \in {"EventRouting", "EventRateLimiting"}
               /\ doc[d].assistant # "nil"

C11_Witness ==
    \E d, e \in DocIds :
        /\ ret[d].op = "new" /\ ret[d].kind = "panic" /\ ~allocated[d]
        /\ ~source[d].isNil /\ ~source[d].Service.isNil
        /\ source[d].Type = "INSTANCE"
        /\ allocated[e] /\ IsInitialized(doc[e])

\* --------------------------------------------------------------------- C12
\* The last build call, had its range loop visited the entries in order p.
InOrder(p) ==
    buildCacheFromMatcher(bLast.metadata, p, bLast.before, bLast.producedBefore)

\* The texts of the entries of the last build call that a build compiles.
ValidTexts ==
    {m.Value : m \in {e \in Range(bLast.metadata) :
                          IsRegexText(e) /\ ~IsWildcard(e) /\ Compiles(e.Value)}}

\* C12 as stated: the texts held by the cache after a build call are the same
\* for every iteration order over the entries, also for a map that holds an
\* invalid pattern or an empty variable reference beside valid patterns.
C12_IterationOrderIrrelevant ==
    bLast.op # "none" =>
        \A p \in Perms(Len(bLast.metadata)) : DOMAIN InOrder(p).cache = DOMAIN bCache

\* C12 as the code has it: a build call that returns nil returns nil and
\* leaves the same texts cached in every iteration order; a build call that
\* returns an error returns an error in every order, and the texts cached are
\* the ones cached before plus the valid patterns of the entries visited
\* before the first failing entry, so they vary with the order.
C12_OrderIrrelevantWhenBuildSucceeds ==
    bLast.op # "none" =>
        \A p \in Perms(Len(bLast.metadata)) :
            /\ (InOrder(p).err = NilError) <=> (bLast.err = NilError)
            /\ bLast.err = NilError =>
                   /\ DOMAIN InOrder(p).cache = DOMAIN bCache
                   /\ DOMAIN bCache = DOMAIN bLast.before \cup ValidTexts
            /\ bLast.err # NilError =>
                   /\ Stops # {}
                   /\ DOMAIN bCache = DOMAIN bLast.before \cup
                          {Visited[k].Value :
                               k \in {j \in 1..(Min(Stops) - 1) :
                                          /\ IsRegexText(Visited[j])
                                          /\ ~IsWildcard(Visited[j])}}

\* A failing build whose cache differs from the one another order leaves.
C12_Witness ==
    /\ bLast.op = "meta" /\ bLast.err # NilError
    /\ "^foo.*" \in DOMAIN bCache
    /\ \E p \in Perms(Len(bLast.metadata)) : "^foo.*" \notin DOMAIN InOrder(p).cache

\* --------------------------------------------------------------------- C13
\* The rule cache of document d.
CacheOf(d) == heap[doc[d].ruleCache]

\* C13 as stated: a validate call that follows a validate call on the same
\* document returns nil if the first returned nil and an error if the first
\* returned an error, and leaves the payload and the matcher cache exactly as
\* the first call left them.
C13_RevalidationIdempotent ==
    [][\A d \in DocIds :
          (Validated(d) /\ ret'[d].op = "validate") =>
              /\ ret'[d].kind = "return"
              /\ (ret'[d].err = NilError) <=> (ret[d].err = NilError)
              /\ GetValue(doc'[d]) = GetValue(doc[d])
              /\ heap'[doc'[d].ruleCache] = CacheOf(d)]_vars

\* C13 as the code has it: the second call returns nil if the first returned
\* nil and an error if the first returned an error, and leaves the payload as
\* it was; after a first call that returned nil it leaves the cache as it was,
\* and after a first call that failed it keeps every cached matcher and may
\* add the valid patterns it meets before its own failing entry.
C13_RevalidationSameOutcome ==
    [][\A d \in DocIds :
          (Validated(d) /\ ret'[d].op = "validate") =>
              /\ ret'[d].kind = "return"
              /\ (ret'[d].err = NilError) <=> (ret[d].err = NilError)
              /\ GetValue(doc'[d]) = GetValue(doc[d])
              /\ doc'[d].ruleCache = doc[d].ruleCache
              /\ ret[d].err = NilError => heap'[doc'[d].ruleCache] = CacheOf(d)
              /\ \A text \in DOMAIN CacheOf(d) :
                     /\ text \in DOMAIN heap'[doc'[d].ruleCache]
                     /\ heap'[doc'[d].ruleCache][text] = CacheOf(d)[text]
              /\ \A text \in DOMAIN heap'[doc'[d].ruleCache] \ DOMAIN CacheOf(d) :
                     \E m \in EntriesOf(GetValue(doc[d])) :
                         IsRegexText(m) /\ m.Value = text /\ Compiles(text)]_vars

\* A second validate call in a row has failed on a document whose cache holds
\* a valid pattern that an iteration order starting at the invalid pattern
\* does not reach.
C13_Witness ==
    \E d \in DocIds :
        /\ Validated(d) /\ ret[d].again /\ ret[d].err # NilError
        /\ badRegex \in EntriesOf(GetValue(doc[d]))
        /\ "^foo.*" \in DOMAIN CacheOf(d)

\* --------------------------------------------------------------------- C14
\* C14: a build call, successful or failing, keeps every pattern text that
\* was a key of the cache before the call, mapped to the same compiled
\* matcher: the cache only grows and no entry is replaced or removed.
C14_CachedEntriesKept ==
    bLast.op # "none" =>
        /\ \A text \in DOMAIN bLast.before :
               /\ text \in DOMAIN bCache
               /\ GetRegexMatcher(bCache, text) = GetRegexMatcher(bLast.before, text)
        /\ Cardinality(DOMAIN bCache) >= Cardinality(DOMAIN bLast.before)
        /\ bProduced >= bLast.producedBefore

\* A build of a malformed map has failed on a cache that held matchers.
C14_Witness ==
    /\ bLast.op = "meta" /\ bLast.err # NilError
    /\ DOMAIN bLast.before # {}
    /\ \E m \in Range(bLast.metadata) : IsInvalidRegex(m)
    /\ \E m \in Range(bLast.metadata) :
           IsRegexText(m) /\ m.Value \in DOMAIN bLast.before

\* --------------------------------------------------------------------- C15
\* Every thread has returned from its build.
ConcFinished == \A t \in Builders : cPc[t] \in {"done", "failed"}

\* text is a valid Regex/Text pattern of the map of every thread.
SharedValid(text) ==
    /\ text # "*" /\ Compiles(text)
    /\ \A t \in Builders : \E m \in Range(cMeta[t]) : IsRegexText(m) /\ m.Value = text

\* No map of a thread holds an entry that fails a build.
NoFailingEntry ==
    \A t \in Builders : \A m \in Range(cMeta[t]) : ~IsEmptyVar(m) /\ ~IsInvalidRegex(m)

\* The compilations of text by thread t, and by all threads.
CompiledBy(t, text) == {i \in 1..Len(cCompiled[t]) : cCompiled[t][i] = text}

ProducedFor(text) == UNION {{<<t, i>> : i \in CompiledBy(t, text)} : t \in Builders}

\* C15 as stated: when the threads build maps that share a valid pattern P
\* into one cache, every interleaving ends with one entry for P and no error,
\* and at most one matcher is ever compiled for P.
C15_OneMatcherEverProduced ==
    \A text \in Texts :
        (SharedValid(text) /\ NoFailingEntry) =>
            /\ Cardinality(ProducedFor(text)) <= 1
            /\ ConcFinished =>
                   /\ text \in DOMAIN cCache
                   /\ \A t \in Builders : cErr[t] = NilError

\* C15 as the code has it: every interleaving ends with one entry for P, a
\* matcher compiled from P, and no error; each thread compiles P at most
\* once, so up to one matcher per thread is compiled for P when the threads
\* look P up before any of them has put it.
C15_OneEntryKept ==
    \A text \in Texts :
        (SharedValid(text) /\ NoFailingEntry) =>
            /\ \A t \in Builders : Cardinality(CompiledBy(t, text)) <= 1
            /\ Cardinality(ProducedFor(text)) <= MaxBuilders
            /\ text \in DOMAIN cCache <=> ProducedFor(text) # {}
            /\ text \in DOMAIN cCache =>
                   /\ GetRegexMatcher(cCache, text).pattern = text
                   /\ GetRegexMatcher(cCache, text).id <= cProduced
            /\ ConcFinished =>
                   /\ text \in DOMAIN cCache
                   /\ \A t \in Builders : cErr[t] = NilError

\* Two threads have both compiled the pattern they share, and both returned.
C15_Witness ==
    /\ ConcFinished /\ NoFailingEntry /\ SharedValid("^foo.*")
    /\ Cardinality(ProducedFor("^foo.*")) >= 2
    /\ "^foo.*" \in DOMAIN cCache
    /\ \A t \in Builders : cErr[t] = NilError

\* --------------------------------------------------------------------- C16
\* This step is a validate call on document d that is seen to act: its
\* outcome, the payload, the recorded error or its cache differs afterwards.
ValidateStep(d) ==
    /\ allocated[d] /\ ret'[d].op = "validate"
    /\ \/ ret'[d] # ret[d]
       \/ GetValue(doc'[d]) # GetValue(doc[d])
       \/ GetValidateError(doc'[d]) # GetValidateError(doc[d])
       \/ /\ GetRuleCache(doc[d]) \in DOMAIN heap
          /\ heap'[GetRuleCache(doc[d])] # CacheOf(d)

\* The rule the assistant of the kind of resp reads from resp.
RuleOf(resp) == IF resp.Type = "ROUTING" THEN resp.Routing ELSE resp.RateLimit

\* C16: a validate call, whether it returns nil, returns an error or panics,
\* leaves the kind, the revision, the namespace and the service, the
\* initialized flag and the loaded flag of the document as they were; on a
\* document whose validation failed the kind, the revision and the identity
\* are still the ones of the source.
C16_ValidateKeepsIdentity ==
    [][\A d \in DocIds :
          /\ ValidateStep(d) =>
                 /\ allocated'[d]
                 /\ GetType(doc'[d]) = GetType(doc[d])
                 /\ GetRevision(doc'[d]) = GetRevision(doc[d])
                 /\ GetNamespace(doc'[d]) = GetNamespace(doc[d])
                 /\ GetService(doc'[d]) = GetService(doc[d])
                 /\ IsInitialized(doc'[d]) = IsInitialized(doc[d])
                 /\ IsCacheLoaded(doc'[d]) = IsCacheLoaded(doc[d])
                 /\ doc'[d].CacheLoaded = doc[d].CacheLoaded
          /\ (ret'[d].op = "validate" /\ ret'[d].kind = "return"
                  /\ ret'[d].err # NilError) =>
                 /\ GetType(doc'[d]) = GetEventType(source'[d].Type)
                 /\ GetRevision(doc'[d]) = RuleOf(source'[d]).revision
                 /\ GetNamespace(doc'[d]) = source'[d].Service.Namespace
                 /\ GetService(doc'[d]) = source'[d].Service.Name
                 /\ IsInitialized(doc'[d])]_vars

\* A loaded document whose validation has failed still reports its kind, its
\* revision and its service.
C16_Witness ==
    \E d \in DocIds :
        /\ Validated(d) /\ ret[d].err # NilError
        /\ IsCacheLoaded(doc[d])
        /\ GetType(doc[d]) = "EventRouting" /\ GetRevision(doc[d]) = "rev-1"
        /\ GetNamespace(doc[d]) = "Production" /\ GetService(doc[d]) = "echo"

\* --------------------------------------------------------------------- C17
\* C17: a document constructed from a present source of a known kind, for
\* as long as no validate call has been made on it, has a rule cache of its
\* own that is empty, reports no validation error, and holds the payload and
\* the revision its assistant read from the source; right after the
\* construction the cache is one that did not exist before and
\* IsCacheLoaded() is false.
C17_FreshDocumentIsConstructed ==
    [][\A d \in DocIds :
          /\ (ret'[d].op = "new" /\ allocated'[d] /\ IsInitialized(doc'[d])) =>
                 /\ GetRuleCache(doc'[d]) \in DOMAIN heap'
                 /\ heap'[GetRuleCache(doc'[d])] = EmptyMap
                 /\ GetValidateError(doc'[d]) = NilError
                 /\ GetValue(doc'[d]) = RuleOf(source'[d]).value
                 /\ GetRevision(doc'[d]) = RuleOf(source'[d]).revision
                 /\ GetType(doc'[d]) \in {"EventRouting", "EventRateLimiting"}
          /\ (~allocated[d] /\ allocated'[d] /\ IsInitialized(doc'[d])) =>
                 /\ ret'[d].op = "new" /\ ret'[d].kind = "return"
                 /\ GetRuleCache(doc'[d]) \notin DOMAIN heap
                 /\ ~IsCacheLoaded(doc'[d])]_vars

\* A fresh document with a payload, beside a document whose cache holds a
\* matcher.
C17_Witness ==
    \E d, e \in DocIds :
        /\ ret[d].op = "new" /\ allocated[d] /\ IsInitialized(doc[d])
        /\ ~GetValue(doc[d]).isNil /\ GetRevision(doc[d]) = "rev-1"
        /\ CacheOf(d) = EmptyMap /\ ~IsCacheLoaded(doc[d])
        /\ Validated(e) /\ CacheOf(e) # EmptyMap

\* --------------------------------------------------------------------- C18
\* Document d has been constructed from a present source.
Live(d) == allocated[d] /\ IsInitialized(doc[d])

\* C18: two initialized documents never hold the same rule cache, a cache
\* holds only patterns of the payload of its own document, and a validate
\* call on a document leaves the cache of every other document as it was.
C18_CachesNeverShared ==
    [][\A d \in DocIds :
          /\ (allocated'[d] /\ IsInitialized(doc'[d])) =>
                 /\ GetRuleCache(doc'[d]) \in DOMAIN heap'
                 /\ \A e \in DocIds \ {d} :
                        (allocated'[e] /\ IsInitialized(doc'[e])) =>
                            GetRuleCache(doc'[e]) # GetRuleCache(doc'[d])
                 /\ \A text \in DOMAIN heap'[GetRuleCache(doc'[d])] :
                        \E m \in EntriesOf(GetValue(doc'[d])) :
                            IsRegexText(m) /\ m.Value = text
          /\ ValidateStep(d) =>
                 \A e \in DocIds \ {d} :
                     Live(e) => /\ GetRuleCache(doc'[e]) = GetRuleCache(doc[e])
                                /\ heap'[GetRuleCache(doc'[e])] = CacheOf(e)]_vars

\* Two validated documents whose caches hold different patterns.
C18_Witness ==
    \E d, e \in DocIds :
        /\ d # e /\ Validated(d) /\ Validated(e)
        /\ DOMAIN CacheOf(d) = {"^foo.*"}
        /\ DOMAIN CacheOf(e) = {""}

\* --------------------------------------------------------------------- C19
\* C19: the recorded validation error is written only by a validate call
\* that returns an error: after any step GetValidateError() is non-nil
\* exactly if it was non-nil before or the step is a validate call on the
\* document that returned an error, and an error once recorded stays
\* recorded.
C19_ValidateErrorSticky ==
    [][\A d \in DocIds :
          /\ allocated'[d] =>
                 (GetValidateError(doc'[d]) # NilError <=>
                     \/ allocated[d] /\ GetValidateError(doc[d]) # NilError
                     \/ /\ ValidateStep(d)
                        /\ ret'[d].kind = "return" /\ ret'[d].err # NilError)
          /\ (allocated[d] /\ GetValidateError(doc[d]) # NilError) =>
                 /\ allocated'[d]
                 /\ GetValidateError(doc'[d]) # NilError]_vars

\* A document that recorded an error has been validated again and loaded.
C19_Witness ==
    \E d \in DocIds :
        /\ Validated(d) /\ ret[d].again
        /\ GetValidateError(doc[d]) # NilError
        /\ IsCacheLoaded(doc[d])

\* --------------------------------------------------------------------- C20
\* C20: every validate call that returns, with nil or with an error, has
\* handed Validate the payload with its defaults filled in, and leaves that
\* payload in the document; a document whose validation failed holds a
\* payload with its defaults filled in.
C20_DefaultsBeforeValidate ==
    \A d \in DocIds :
        Validated(d) =>
            /\ ret[d].validated = GetValue(doc[d])
            /\ ret[d].validated = SetDefault(doc[d].assistant, RuleOf(source[d]).value)
            /\ ~ret[d].validated.isNil => ret[d].validated.defaulted
            /\ ~GetValue(doc[d]).isNil => GetValue(doc[d]).defaulted

\* A failed validation has left a payload with defaults, beside a fresh
\* document whose payload has none yet.
C20_Witness ==
    \E d, e \in DocIds :
        /\ Validated(d) /\ ret[d].err # NilError
        /\ ~GetValue(doc[d]).isNil /\ GetValue(doc[d]).defaulted
        /\ ret[e].op = "new" /\ allocated[e]
        /\ ~GetValue(doc[e]).isNil /\ ~GetValue(doc[e]).defaulted
====
